---- MODULE Spec2Model ----
(***************************************************************************)
(* ChatInterface (src/components/UI.tsx): a React chat widget.  The model   *)
(* holds the component's useState cells, the running invocations of the     *)
(* async handler sendMessage (one record per invocation: its position and   *)
(* its locals), the requests handed to fetch, and the millisecond clock     *)
(* read by Date.now().                                                      *)
(*                                                                         *)
(* Strings are sequences of string fragments: ("a" + "b") is                *)
(* <<"a">> \o <<"b">>.  Input texts are sequences of single characters so   *)
(* that String.prototype.trim is computed, not assumed.  A JavaScript value *)
(* that may be a string, null or undefined is a record [type, val].         *)
(*                                                                         *)
(* Every handler reads the state of the latest render: React renders after  *)
(* each event handler and each continuation before the next event is        *)
(* dispatched, so the values a handler closes over are the current ones.    *)
(*                                                                         *)
(* JavaScript runs a handler, and the continuation of an await, to          *)
(* completion: while an invocation of sendMessage is between two awaits no  *)
(* other handler runs.  The synchronous prefix of sendMessage (lines 41-70) *)
(* is one action; the continuation after an await is split at each setter   *)
(* call so that the order of the setter calls is visible, and every event   *)
(* handler is disabled until the continuation has reached its end.          *)
(***************************************************************************)
EXTENDS Integers, Sequences, FiniteSets, TLC

\* ---------------------------------------------------------------- bounds
MaxPad == 1          \* whitespace characters around a typed text
MaxNow == 1          \* last clock reading (milliseconds since Init)
MaxMessages == 2     \* a submission is accepted only into a shorter transcript

\* ------------------------------------------------------------- JS values
Str(s) == [type |-> "string", val |-> s]
Null == [type |-> "null", val |-> <<>>]
Undefined == [type |-> "undefined", val |-> <<>>]
\* truthiness of a string / null / undefined value (`error &&`, `a || b`)
Truthy(v) == v.type = "string" /\ v.val # <<>>

WhiteSpace == {" "}

RECURSIVE Spaces(_)
Spaces(n) == IF n = 0 THEN <<>> ELSE <<" ">> \o Spaces(n - 1)

\* what onChange can put into the input: nothing or a word, with no padding
\* or MaxPad whitespace characters on either side
Words == {<<>>, <<"a">>}
Inputs ==
  {Spaces(l) \o w \o Spaces(r) : l \in {0, MaxPad}, r \in {0, MaxPad}, w \in Words}

RECURSIVE TrimStart(_)
TrimStart(s) ==
  IF s # <<>> /\ Head(s) \in WhiteSpace THEN TrimStart(Tail(s)) ELSE s

RECURSIVE TrimEnd(_)
TrimEnd(s) ==
  IF s # <<>> /\ s[Len(s)] \in WhiteSpace
  THEN TrimEnd(SubSeq(s, 1, Len(s) - 1)) ELSE s

\* String.prototype.trim
Trim(s) == TrimEnd(TrimStart(s))

Contains(s, frag) == \E i \in DOMAIN s : s[i] = frag

\* -------------------------------------------------------- the environment
\* HTTP statuses the endpoint answers with; response.ok is 200..299
Statuses == {200, 500}
Ok(status) == status >= 200 /\ status <= 299

Replies == {<<"Hi there!">>}

\* response bodies: not JSON, the JSON value null, a JSON object without
\* the field `response`, a JSON object with it
Bodies ==
  {[kind |-> "invalid", hasResponse |-> FALSE, response |-> <<>>],
   [kind |-> "null", hasResponse |-> FALSE, response |-> <<>>],
   [kind |-> "object", hasResponse |-> FALSE, response |-> <<>>]}
  \cup {[kind |-> "object", hasResponse |-> TRUE, response |-> r] : r \in Replies}

NoBody == [kind |-> "none", hasResponse |-> FALSE, response |-> <<>>]

\* messages of the values fetch rejects with: the TypeError of a failed
\* transport, and a value whose message is empty
RejectMessages == {<<"Failed to fetch">>, <<>>}

NoResponse == [status |-> 0, body |-> NoBody]
NoErr == [thrown |-> FALSE, message |-> <<>>]
Thrown(m) == [thrown |-> TRUE, message |-> m]

\* ------------------------------------------------------------------ state
VARIABLES
  messages,      \* useState<Message[]>
  inputMessage,  \* useState('')
  isLoading,     \* useState(false)
  error,         \* useState<string | null>
  isClient,      \* useState(false)
  calls,         \* running invocations of sendMessage
  network,       \* requests passed to fetch and not yet answered
  now,           \* Date.now()
  event          \* the handler or step that ran last

vars == <<messages, inputMessage, isLoading, error, isClient, calls, network,
          now, event>>

Ev(op, accepted) == [op |-> op, accepted |-> accepted]

Init ==
  /\ messages = <<>>
  /\ inputMessage = <<>>
  /\ isLoading = FALSE
  /\ error = Null
  /\ isClient = FALSE
  /\ calls = <<>>
  /\ network = <<>>
  /\ now = 0
  /\ event = Ev("init", TRUE)

\* an invocation is suspended at an await
Awaiting(c) == c.pc \in {"fetch", "json"}
\* no continuation is in the middle of its synchronous run
NoSyncRunning == \A i \in DOMAIN calls : Awaiting(calls[i])

RemoveAt(s, i) == SubSeq(s, 1, i - 1) \o SubSeq(s, i + 1, Len(s))
SetCall(i, c) == [calls EXCEPT ![i] = c]

\* ---------------------------------------------------------------- actions
\* useEffect(() => setIsClient(true), [])
Mount ==
  /\ ~isClient
  /\ isClient' = TRUE
  /\ event' = Ev("mount", TRUE)
  /\ UNCHANGED <<messages, inputMessage, isLoading, error, calls, network, now>>

\* the clock advances
Tick ==
  /\ now < MaxNow
  /\ now' = now + 1
  /\ event' = Ev("tick", TRUE)
  /\ UNCHANGED <<messages, inputMessage, isLoading, error, isClient, calls, network>>

\* onChange={(e) => setInputMessage(e.target.value)}
onChange ==
  /\ isClient
  /\ NoSyncRunning
  /\ \E s \in Inputs : inputMessage' = s
  /\ event' = Ev("change", TRUE)
  /\ UNCHANGED <<messages, isLoading, error, isClient, calls, network, now>>

\* the guard without its isLoading test
SubmitRejected_IgnoresLoading == Trim(inputMessage) = <<>>

\* the guard testing the raw input instead of the trimmed one
SubmitRejected_NoTrim == inputMessage = <<>> \/ isLoading

\* if (!inputMessage.trim() || isLoading) return;
SubmitRejected == Trim(inputMessage) = <<>> \/ isLoading

UserMessage == [id |-> ToString(now), text |-> Str(inputMessage),
                isUser |-> TRUE, timestamp |-> now]

\* the body built from the trimmed input
RequestBody_Trimmed == [message |-> Trim(inputMessage)]

\* body: JSON.stringify({ message: inputMessage })
RequestBody == [message |-> inputMessage]

\* the identity of the promise fetch returns
FreshRequest ==
  CHOOSE n \in 1..(Len(calls) + 1) : \A i \in DOMAIN calls : calls[i].request # n

NewCall(n) == [pc |-> "fetch", request |-> n, inputMessage |-> inputMessage,
               response |-> NoResponse, data |-> NoBody, err |-> NoErr]

\* sendMessage up to `await fetch(...)`
sendMessage ==
  /\ isClient
  /\ NoSyncRunning
  /\ IF SubmitRejected
     THEN /\ event' = Ev("submit", FALSE)
          /\ UNCHANGED <<messages, inputMessage, isLoading, error, isClient,
                         calls, network, now>>
     ELSE /\ Len(messages) < MaxMessages
          /\ messages' = Append(messages, UserMessage)
          /\ inputMessage' = <<>>
          /\ isLoading' = TRUE
          /\ error' = Null
          /\ network' = Append(network, [n |-> FreshRequest, method |-> "POST",
                                         body |-> RequestBody])
          /\ calls' = Append(calls, NewCall(FreshRequest))
          /\ event' = Ev("submit", TRUE)
          /\ UNCHANGED <<isClient, now>>

\* a clear that also abandons the exchange in flight
clearChat_Cancels ==
  /\ isClient
  /\ NoSyncRunning
  /\ messages' = <<>>
  /\ error' = Null
  /\ isLoading' = FALSE
  /\ calls' = <<>>
  /\ network' = <<>>
  /\ event' = Ev("clear", TRUE)
  /\ UNCHANGED <<inputMessage, isClient, now>>

\* const clearChat = () => { setMessages([]); setError(null); }
clearChat ==
  /\ isClient
  /\ NoSyncRunning
  /\ messages' = <<>>
  /\ error' = Null
  /\ event' = Ev("clear", TRUE)
  /\ UNCHANGED <<inputMessage, isLoading, isClient, calls, network, now>>

\* the thrown message without the status code
HttpErrorMessage_NoStatus(status) == <<"HTTP error!">>

\* throw new Error(`HTTP error! status: ${response.status}`)
HttpErrorMessage(status) == <<"HTTP error! status: ", ToString(status)>>

\* what the endpoint can do with a request: the transport fails, or it
\* answers with a status and, when the status is ok, a body (the body of a
\* response that is not ok is never read)
Outcomes ==
  {[rejected |-> TRUE, message |-> m, status |-> 0, body |-> NoBody] :
     m \in RejectMessages}
  \cup {[rejected |-> FALSE, message |-> <<>>, status |-> st, body |-> NoBody] :
          st \in {x \in Statuses : ~Ok(x)}}
  \cup {[rejected |-> FALSE, message |-> <<>>, status |-> st, body |-> b] :
          st \in {x \in Statuses : Ok(x)}, b \in Bodies}

\* `await fetch` settles: it rejects, or resolves with a response; a
\* response that is not ok throws, an ok one goes on to response.json()
FetchSettled(c, o) ==
  IF o.rejected
  THEN [c EXCEPT !.pc = "catch", !.err = Thrown(o.message)]
  ELSE IF ~Ok(o.status)
       THEN [c EXCEPT !.pc = "catch",
                      !.response = [status |-> o.status, body |-> o.body],
                      !.err = Thrown(HttpErrorMessage(o.status))]
       ELSE [c EXCEPT !.pc = "json",
                      !.response = [status |-> o.status, body |-> o.body]]

Answered(i) == SelectSeq(network, LAMBDA r : r.n # calls[i].request)

FetchSettle ==
  /\ NoSyncRunning
  /\ \E i \in DOMAIN calls :
       /\ calls[i].pc = "fetch"
       /\ \E o \in Outcomes : calls' = SetCall(i, FetchSettled(calls[i], o))
       /\ network' = Answered(i)
  /\ event' = Ev("fetchSettle", TRUE)
  /\ UNCHANGED <<messages, inputMessage, isLoading, error, isClient, now>>

\* `await response.json()` settles: a body that is not JSON rejects; with
\* data = null the read of data.response throws a TypeError
JsonSettled(c) ==
  LET body == c.response.body IN
  IF body.kind = "invalid"
  THEN [c EXCEPT !.pc = "catch", !.err = Thrown(<<"Unexpected token">>)]
  ELSE IF body.kind = "null"
       THEN [c EXCEPT !.pc = "catch", !.data = body,
                      !.err = Thrown(<<"Cannot read properties of null">>)]
       ELSE [c EXCEPT !.pc = "bot", !.data = body]

JsonSettle ==
  /\ NoSyncRunning
  /\ \E i \in DOMAIN calls :
       /\ calls[i].pc = "json"
       /\ calls' = SetCall(i, JsonSettled(calls[i]))
  /\ event' = Ev("jsonSettle", TRUE)
  /\ UNCHANGED <<messages, inputMessage, isLoading, error, isClient, network, now>>

\* data.response
ResponseField(data) == IF data.hasResponse THEN Str(data.response) ELSE Undefined

\* the reply read from a field the payload does not have
BotMessage_WrongField(data) == [id |-> ToString(now + 1), text |-> Undefined,
                                isUser |-> FALSE, timestamp |-> now]

BotMessage(data) == [id |-> ToString(now + 1), text |-> ResponseField(data),
                     isUser |-> FALSE, timestamp |-> now]

\* setMessages(prev => [...prev, botMessage])
BotAppend ==
  /\ \E i \in DOMAIN calls :
       /\ calls[i].pc = "bot"
       /\ messages' = Append(messages, BotMessage(calls[i].data))
       /\ calls' = SetCall(i, [calls[i] EXCEPT !.pc = "finally"])
  /\ event' = Ev("botAppend", TRUE)
  /\ UNCHANGED <<inputMessage, isLoading, error, isClient, network, now>>

\* 'Failed to send message: ' + (err.message || 'Check console')
ErrorText(err) ==
  <<"Failed to send message: ">>
    \o (IF err.message # <<>> THEN err.message ELSE <<"Check console">>)

\* setError(...)
CatchSetError ==
  /\ \E i \in DOMAIN calls :
       /\ calls[i].pc = "catch"
       /\ error' = Str(ErrorText(calls[i].err))
       /\ calls' = SetCall(i, [calls[i] EXCEPT !.pc = "catchMsg"])
  /\ event' = Ev("setError", TRUE)
  /\ UNCHANGED <<messages, inputMessage, isLoading, isClient, network, now>>

Apology == <<"Sorry, I encountered an error. Please try again.">>

ErrorMessage == [id |-> ToString(now + 1), text |-> Str(Apology),
                 isUser |-> FALSE, timestamp |-> now]

\* setMessages(prev => [...prev, errorMessage])
CatchAppend ==
  /\ \E i \in DOMAIN calls :
       /\ calls[i].pc = "catchMsg"
       /\ messages' = Append(messages, ErrorMessage)
       /\ calls' = SetCall(i, [calls[i] EXCEPT !.pc = "finally"])
  /\ event' = Ev("catchAppend", TRUE)
  /\ UNCHANGED <<inputMessage, isLoading, error, isClient, network, now>>

\* an invocation that returns without resetting isLoading
Finally_KeepsLoading ==
  /\ \E i \in DOMAIN calls :
       /\ calls[i].pc = "finally"
       /\ calls' = RemoveAt(calls, i)
  /\ event' = Ev("finally", TRUE)
  /\ UNCHANGED <<messages, inputMessage, isLoading, error, isClient, network, now>>

\* finally { setIsLoading(false); }  and the invocation returns
Finally ==
  /\ \E i \in DOMAIN calls :
       /\ calls[i].pc = "finally"
       /\ calls' = RemoveAt(calls, i)
  /\ isLoading' = FALSE
  /\ event' = Ev("finally", TRUE)
  /\ UNCHANGED <<messages, inputMessage, error, isClient, network, now>>

Next ==
  \/ Mount
  \/ Tick
  \/ onChange
  \/ sendMessage
  \/ clearChat
  \/ FetchSettle
  \/ JsonSettle
  \/ BotAppend
  \/ CatchSetError
  \/ CatchAppend
  \/ Finally

Spec == Init /\ [][Next]_vars

\* ----------------------------------------------------------------- render
\* what the component returns for the current state
ShowsPlaceholder == ~isClient
ShowsEmptyState == isClient /\ Len(messages) = 0
ShowsMessageList == isClient /\ Len(messages) # 0
ShowsThinking == ShowsMessageList /\ isLoading
ShowsErrorBanner == isClient /\ Truthy(error)

TypeOK ==
  /\ inputMessage \in Inputs
  /\ isLoading \in BOOLEAN
  /\ isClient \in BOOLEAN
  /\ now \in 0..MaxNow
  /\ error.type \in {"string", "null"}
  /\ \A i \in DOMAIN messages : messages[i].isUser \in BOOLEAN

\* the request eventually settles, and the event loop runs a continuation
\* that is ready
LiveSpec ==
  /\ Spec
  /\ WF_vars(FetchSettle)
  /\ WF_vars(JsonSettle)
  /\ WF_vars(BotAppend)
  /\ WF_vars(CatchSetError)
  /\ WF_vars(CatchAppend)
  /\ WF_vars(Finally)

\* ------------------------------------------------------------- properties
Last(s) == s[Len(s)]
Front(s) == SubSeq(s, 1, Len(s) - 1)

\* this step is the handler or continuation step named op
Ran(op) == event'.op = op
AcceptedSubmit == Ran("submit") /\ event'.accepted

\* the steps that write messages
WritesMessages(ops) == messages' # messages => \E op \in ops : Ran(op)

\* C1: at most one request is in flight in every reachable state, and a
\* submit issued while isLoading is true sends nothing, appends nothing and
\* leaves messages, the input, isLoading and error as they were.
C1_SingleFlight ==
  /\ [](Len(network) <= 1 /\ Len(calls) <= 1)
  /\ [][(Ran("submit") /\ isLoading) =>
          /\ ~event'.accepted
          /\ UNCHANGED <<messages, inputMessage, isLoading, error, calls, network>>]_vars

\* a submit of a non-blank text was turned away while a request was pending
C1_Witness ==
  /\ event = Ev("submit", FALSE)
  /\ isLoading
  /\ Trim(inputMessage) # <<>>
  /\ Len(network) = 1

\* C2: a submit of an empty or whitespace-only text, in any state, appends
\* no message and sends no request; messages, isLoading and error stay.
C2_BlankSubmit ==
  [][(Ran("submit") /\ Trim(inputMessage) = <<>>) =>
       /\ ~event'.accepted
       /\ UNCHANGED <<messages, isLoading, error, calls, network>>]_vars

\* a whitespace-only text was submitted while idle
C2_Witness ==
  /\ event = Ev("submit", FALSE)
  /\ ~isLoading
  /\ inputMessage # <<>>
  /\ Trim(inputMessage) = <<>>

\* C3: an accepted submit appends the user message with the submitted text
\* at once; until the reply the transcript (unless cleared) ends with that
\* message; a 2xx response with a reply text appends one assistant message
\* carrying that text; when the invocation returns isLoading is false and
\* error is null.
C3_SuccessfulExchange ==
  /\ [][AcceptedSubmit =>
          /\ Front(messages') = messages
          /\ Last(messages').isUser
          /\ Last(messages').text = Str(inputMessage)]_vars
  /\ [](\A i \in DOMAIN calls :
          calls[i].pc \in {"fetch", "json", "bot"} =>
            \/ messages = <<>>
            \/ /\ Last(messages).isUser
               /\ Last(messages).text = Str(calls[i].inputMessage))
  /\ [][\A i \in DOMAIN calls :
          (calls[i].pc = "bot" /\ calls[i].data.hasResponse /\ Ran("botAppend")) =>
            /\ Front(messages') = messages
            /\ ~Last(messages').isUser
            /\ Last(messages').text = Str(calls[i].response.body.response)]_vars
  /\ [][\A i \in DOMAIN calls :
          (calls[i].pc = "finally" /\ ~calls[i].err.thrown /\ Ran("finally")) =>
            /\ messages' = messages
            /\ ~isLoading'
            /\ error' = Null]_vars
  /\ [][isLoading => WritesMessages({"botAppend", "catchAppend", "clear"})]_vars

\* an exchange that began with the error set has ended well: apology of the
\* earlier failure, the user message, the reply
C3_Witness ==
  /\ event = Ev("finally", TRUE)
  /\ Len(messages) = 3
  /\ messages[1].text = Str(Apology)
  /\ messages[2].isUser
  /\ ~messages[3].isUser
  /\ messages[3].text \in {Str(r) : r \in Replies}
  /\ ~isLoading
  /\ error = Null

\* the invocation has thrown and been caught
Failed(c) == c.err.thrown

\* C4: a failed exchange appends the user message and then exactly one
\* assistant message with the fixed apology, and sets error to a non-empty
\* string, which for a non-2xx status contains the status code; every throw
\* is caught and no further request is sent.
C4_FailedExchange ==
  /\ [](\A i \in DOMAIN calls :
          calls[i].pc \in {"catch", "catchMsg"} =>
            /\ Failed(calls[i])
            /\ \/ messages = <<>>
               \/ /\ Last(messages).isUser
                  /\ Last(messages).text = Str(calls[i].inputMessage))
  /\ [][\A i \in DOMAIN calls :
          (calls[i].pc = "catchMsg" /\ Ran("catchAppend")) =>
            /\ Front(messages') = messages
            /\ ~Last(messages').isUser
            /\ Last(messages').text = Str(Apology)]_vars
  /\ [](\A i \in DOMAIN calls :
          (calls[i].pc = "finally" /\ Failed(calls[i])) =>
            /\ Truthy(error)
            /\ (calls[i].response.status # 0 /\ ~Ok(calls[i].response.status)) =>
                 Contains(error.val, ToString(calls[i].response.status))
            /\ Last(messages).text = Str(Apology))
  /\ [][WritesMessages({"submit", "botAppend", "catchAppend", "clear"})]_vars
  /\ [][Len(network') > Len(network) => AcceptedSubmit]_vars

\* an exchange answered with status 500 has ended
C4_Witness ==
  /\ event = Ev("finally", TRUE)
  /\ Len(messages) = 2
  /\ messages[1].isUser
  /\ messages[2].text = Str(Apology)
  /\ Truthy(error)
  /\ Contains(error.val, "500")
  /\ network = <<>>

\* the body of a response is a JSON object with the reply field
WellFormed(body) == body.kind = "object" /\ body.hasResponse

\* C5: every 2xx response whose body is not a JSON object with the reply
\* field is handled as a failure (the invocation throws into its catch), and
\* no assistant message is built from it.
C5_MalformedIsFailure ==
  \A i \in DOMAIN calls :
    (/\ calls[i].pc \notin {"fetch", "json"}
     /\ Ok(calls[i].response.status)
     /\ ~WellFormed(calls[i].response.body)) => Failed(calls[i])

C7_LoadingReset ==
  /\ isLoading ~> ~isLoading
  /\ [][(isLoading /\ ~isLoading') =>
          /\ Ran("finally")
          /\ UNCHANGED <<messages, error, inputMessage, network>>
          /\ \E i \in DOMAIN calls :
               calls[i].pc = "finally" /\ calls' = RemoveAt(calls, i)]_vars
  /\ [](\A i \in DOMAIN calls :
          calls[i].pc = "finally" =>
            /\ messages # <<>>
            /\ ~Last(messages).isUser
            /\ Failed(calls[i]) => Truthy(error))
  /\ [](calls = <<>> => ~isLoading)

\* a failed exchange has returned and the form accepts input again
C7_Witness ==
  /\ event = Ev("finally", TRUE)
  /\ ~isLoading
  /\ calls = <<>>
  /\ Truthy(error)

\* C8: clearChat in any state empties messages and sets error to null, and
\* leaves isLoading and the exchange in flight alone; the reply or the
\* apology arriving later is appended, to the empty list too.
C8_Clear ==
  /\ [][Ran("clear") =>
          /\ messages' = <<>>
          /\ error' = Null
          /\ UNCHANGED <<isLoading, calls, network, inputMessage>>]_vars
  /\ [][(Ran("botAppend") \/ Ran("catchAppend")) =>
          /\ Front(messages') = messages
          /\ ~Last(messages').isUser]_vars

\* after a clear during the exchange the transcript holds the assistant's
\* message alone
C8_Witness ==
  /\ event.op \in {"botAppend", "catchAppend"}
  /\ Len(messages) = 1
  /\ ~messages[1].isUser
  /\ isLoading

\* C9: no two messages of the transcript have the same id.
C9_UniqueIds ==
  \A i, j \in DOMAIN messages : i # j => messages[i].id # messages[j].id

\* C10: in the interactive rendering the "Thinking..." indicator is shown
\* exactly when isLoading is true.
C10_Indicator == isClient => (ShowsThinking <=> isLoading)
====
